---- MODULE Spec2Model ----
(***************************************************************************)
(* AFCOTEC mini-API (server.py): the counters, clients and history tables, *)
(* the take_next_number, set_counter, upsert_client and add_history        *)
(* handlers running as concurrent requests against one PostgreSQL store    *)
(* (READ COMMITTED, row locks), and formatted_number.                       *)
(***************************************************************************)
EXTENDS Integers, Sequences, FiniteSets, TLC

\* ---------------------------------------------------------------- bounds
NumWorkers == 3          \* concurrent request workers
MaxCalls == 3            \* requests served in one behaviour
MaxFmtNext == 12         \* largest next_val given to formatted_number alone
MaxFmtPadding == 3       \* largest padding given to formatted_number alone

Workers == 1..NumWorkers
DocTypes == {"invoice", "quote"}
Prefixes == {"", "INV-"}

\* request bodies of PUT /counters/{doc_type} that the model sends
CounterIns ==
    { [next |-> 9, prefix |-> "INV-", padding |-> 2],
      [next |-> 3, prefix |-> "", padding |-> -1] }

\* ------------------------------------------------------- formatted_number
Digits == <<"0", "1", "2", "3", "4", "5", "6", "7", "8", "9">>

\* str(n) of a natural number
RECURSIVE NatStr(_)
NatStr(n) ==
    IF n < 10 THEN Digits[n + 1] ELSE NatStr(n \div 10) \o Digits[(n % 10) + 1]

\* str(next_val)
Str(n) == IF n < 0 THEN "-" \o NatStr(-n) ELSE NatStr(n)

\* '0' repeated k times
RECURSIVE Zeros(_)
Zeros(k) == IF k <= 0 THEN "" ELSE "0" \o Zeros(k - 1)

\* the format spec "0{padding}d" is one Python accepts: '0' then a width of digits
FormatSpecValid(padding) == padding >= 0

\* f"{next_val:0{padding}d}" for next_val >= 0 and a valid spec
ZeroFill(next_val, padding) ==
    Zeros(padding - Len(NatStr(next_val))) \o NatStr(next_val)

\* the branch `if padding and next_val >= 0`
PadBranch(next_val, padding) == padding # 0 /\ next_val >= 0

\* formatted_number raises ValueError (invalid format specifier)
FormatRaises(next_val, padding) ==
    PadBranch(next_val, padding) /\ ~FormatSpecValid(padding)

\* the string formatted_number returns when it does not raise
formatted_number(next_val, prefix, padding) ==
    IF PadBranch(next_val, padding)
    THEN prefix \o ZeroFill(next_val, padding)
    ELSE prefix \o Str(next_val)


\* ------------------------------------------------------------------ state
VARIABLES
    counters,   \* committed rows of table counters: doc_type -> row
    rowlock,    \* per key: the worker whose open transaction holds the row
                \* lock or the uncommitted insert of that key, 0 when free
    pc,         \* per worker: the statement its handler runs next
    doc,        \* per worker: doc_type of the request
    cin,        \* per worker: CounterIn body of a set_counter request
    loc,        \* per worker: locals next_val, prefix, padding, formatted
    wr,         \* per worker: rows written by its open transaction
    result,     \* the response of the last finished request
    ncalls,     \* requests started so far
    begun,      \* history: take_next_number calls started, per doc_type
    fresh,      \* history: every call on the type so far was a
                \* take_next_number started with no row, and none failed
    start,      \* history: next of the row when it was created or configured
    hist,       \* history: numbers issued since, in commit order
    lastc,      \* history: key of the last commit and the row it replaced
    lastf,      \* history: the number a failed take_next_number had computed,
                \* until the next commit on its doc_type
    fmtArg,     \* arguments of a direct formatted_number call
    fmtRes,     \* its outcome
    clients,    \* committed rows of table clients: id -> row
    nextid,     \* next value of the sequence behind clients.id
    history,    \* committed rows of table history, in commit order
    hnextid,    \* next value of the sequence behind history.id
    creq,       \* per worker: ClientIn body of an upsert_client request
    hreq,       \* per worker: HistoryIn body of an add_history request
    cid,        \* per worker: the id its SELECT found (0: none) or its INSERT made
    cwr,        \* per worker: the clients / history row its open transaction wrote
    cres,       \* the response of the last finished clients / history request
    answered,   \* history variable: [name, email, id] of every upsert_client answered 200
    prior       \* history variable, per worker: ids that earlier finished calls with
                \* the same name and email returned, as of this call's arrival

vars == <<counters, rowlock, pc, doc, cin, loc, wr, result, ncalls,
          begun, fresh, start, hist, lastc, lastf, fmtArg, fmtRes,
          clients, nextid, history, hnextid, creq, hreq, cid, cwr, cres, answered, prior>>
fmtVars == <<fmtArg, fmtRes>>
cliVars == <<clients, nextid, history, hnextid, creq, hreq, cid, cwr, cres, answered, prior>>
histVars == <<begun, fresh, start, hist, lastc, lastf>>

NoRows == [t \in {} |-> [next |-> 1, prefix |-> "", padding |-> 0]]
OneRow(t, row) == [k \in {t} |-> row]

\* column defaults of Counter / field defaults of CounterIn
DefaultCounter == [next |-> 1, prefix |-> "", padding |-> 0]
NoLocals == [next_val |-> 0, prefix |-> "", padding |-> 0, formatted |-> ""]
NoResult == [status |-> 0, error |-> "", at |-> "", formatted |-> "", counter |-> <<>>]
NoFailed == [type |-> "", num |-> <<>>, retried |-> FALSE]
NoFmtArg == [next_val |-> 0, prefix |-> "", padding |-> 0]
NoFmtRes == [done |-> FALSE, raised |-> FALSE, str |-> ""]

\* Optional[str]: None, or a string
None == <<>>
Some(str) == <<str>>

\* `x or ""`
OrBlank(x) == IF x = None THEN "" ELSE x[1]

NoClients == [i \in {} |-> [name |-> "", address |-> "", email |-> "", phone |-> ""]]
NoClientIn == [name |-> "", address |-> Some(""), email |-> Some(""), phone |-> Some("")]
NoWrite == <<>>
NoHistoryIn == [type |-> "", number |-> ""]
NoClientResult == [status |-> 0, error |-> "", detail |-> "", client |-> <<>>, entry |-> <<>>]

\* no clients / history request is open
NoClientRequests ==
    /\ creq = [p \in Workers |-> NoClientIn]
    /\ hreq = [p \in Workers |-> NoHistoryIn]
    /\ cid = [p \in Workers |-> 0]
    /\ cwr = [p \in Workers |-> NoWrite]
    /\ cres = NoClientResult
    /\ answered = {}
    /\ prior = [p \in Workers |-> {}]

Init ==
    /\ counters = NoRows
    /\ rowlock = [t \in DocTypes |-> 0]
    /\ pc = [p \in Workers |-> "idle"]
    /\ doc = [p \in Workers |-> "invoice"]
    /\ cin = [p \in Workers |-> DefaultCounter]
    /\ loc = [p \in Workers |-> NoLocals]
    /\ wr = [p \in Workers |-> NoRows]
    /\ result = NoResult
    /\ ncalls = 0
    /\ begun = [t \in DocTypes |-> 0]
    /\ fresh = [t \in DocTypes |-> TRUE]
    /\ start = [t \in DocTypes |-> 0]
    /\ hist = [t \in DocTypes |-> <<>>]
    /\ lastc = [type |-> "", old |-> <<>>]
    /\ lastf = NoFailed
    /\ fmtArg = NoFmtArg
    /\ fmtRes = NoFmtRes
    /\ NoClientRequests
    /\ clients = NoClients
    /\ nextid = 1
    /\ history = <<>>
    /\ hnextid = 1

\* ------------------------------------------------------------ store rules
\* table `tbl` with the rows of `w` written over it
Merge(tbl, w) ==
    [t \in DOMAIN tbl \cup DOMAIN w |-> IF t \in DOMAIN w THEN w[t] ELSE tbl[t]]

\* the row of key t that worker p's transaction sees
Visible(p, t) == IF t \in DOMAIN wr[p] THEN wr[p][t] ELSE counters[t]

\* mutant: the lock is taken on the whole table, not on the row
SelectBlockedByTableLock(p, t) == \E u \in DocTypes : rowlock[u] \notin {0, p}

\* mutant: a plain SELECT, which waits for no lock
SelectWithoutForUpdate(p, t) == FALSE

\* SELECT ... FOR UPDATE waits while another transaction holds the row's lock
SelectBlocked(p, t) == t \in DOMAIN counters /\ rowlock[t] \notin {0, p}

\* an INSERT of key t waits while another transaction's write of that key is open
InsertBlocked(p, t) == rowlock[t] \notin {0, p}

\* the committed table after worker p's transaction commits
Committed(p) == Merge(counters, wr[p])

\* mutant: the statements of a failed request stay written (autocommit)
RolledBackKeepsWrites(p) == Merge(counters, wr[p])

\* the committed table after worker p's transaction is rolled back
RolledBack(p) == counters

\* mutant: the locks of an ended transaction stay held
ReleasedNever(p) == rowlock

\* locks after worker p's transaction ends
Released(p) == [t \in DocTypes |-> IF rowlock[t] = p THEN 0 ELSE rowlock[t]]

\* a request that ended in an unhandled exception raised at statement `at`: HTTP 500
Failure(kind, at) ==
    [status |-> 500, error |-> kind, at |-> at, formatted |-> "", counter |-> <<>>]

\* the row of key t in table tbl, as a sequence of at most one row
RowOf(tbl, t) == IF t \in DOMAIN tbl THEN <<tbl[t]>> ELSE <<>>

\* history of failed calls after a commit on doc_type t by a call that issued
\* the numbers `issued` (none for set_counter)
FailedAfterCommit(t, issued) ==
    IF lastf.type # t THEN lastf
    ELSE IF lastf.num = issued /\ ~lastf.retried THEN [lastf EXCEPT !.retried = TRUE]
    ELSE NoFailed

\* leaving `with SessionLocal() as db` by an exception: the session closes and its
\* transaction is rolled back
Abort(p, kind) ==
    /\ counters' = RolledBack(p)
    /\ rowlock' = Released(p)
    /\ wr' = [wr EXCEPT ![p] = NoRows]
    /\ loc' = [loc EXCEPT ![p] = NoLocals]
    /\ pc' = [pc EXCEPT ![p] = "idle"]
    /\ result' = Failure(kind, pc[p])
    /\ doc' = [doc EXCEPT ![p] = "invoice"]
    /\ cin' = [cin EXCEPT ![p] = DefaultCounter]
    /\ fresh' = [fresh EXCEPT ![doc[p]] = FALSE]
    /\ lastf' = IF pc[p] \in {"tn_update", "tn_commit"}
                THEN [type |-> doc[p], num |-> <<loc[p].next_val>>, retried |-> FALSE]
                ELSE lastf
    /\ UNCHANGED <<ncalls, begun, start, hist, lastc, fmtVars, cliVars>>

\* ------------------------------------------------- POST /take_next_number
\* mutant: the row is created with a padding of its own
InsertedRowPadded == [next |-> 1, prefix |-> "", padding |-> 1]

\* the row INSERT INTO counters ... VALUES (:t,1,'',0) writes
InsertedRow == [next |-> 1, prefix |-> "", padding |-> 0]

\* mutant: the first number is taken to be 0
FirstLocalsFromZero == [next_val |-> 0, prefix |-> "", padding |-> 0, formatted |-> ""]

\* next_val, prefix, padding = 1, "", 0
FirstLocals == [next_val |-> 1, prefix |-> "", padding |-> 0, formatted |-> ""]

\* _, next_val, prefix, padding = row
RowLocals(row) ==
    [next_val |-> row.next, prefix |-> row.prefix, padding |-> row.padding,
     formatted |-> ""]

\* mutant: the increment skips a number
UpdatedNextByTwo(next_val) == next_val + 2

\* mutant: the counter counts down
UpdatedNextDown(next_val) == next_val - 1

\* an UPDATE that rewrites the whole row from the column defaults
UpdatedRowFromDefaults(row, n) == [next |-> n, prefix |-> "", padding |-> 0]

\* the value UPDATE counters SET next=:n binds to :n
UpdatedNext(next_val) == next_val + 1

\* the row after UPDATE counters SET next=:n WHERE type=:t
UpdatedRow(row, n) == [row EXCEPT !.next = n]

\* a request arrives; the handler opens its session and runs BEGIN
CallTake(p, t) ==
    /\ pc[p] = "idle"
    /\ ncalls < MaxCalls
    /\ ncalls' = ncalls + 1
    /\ pc' = [pc EXCEPT ![p] = "tn_select"]
    /\ doc' = [doc EXCEPT ![p] = t]
    /\ cin' = [cin EXCEPT ![p] = DefaultCounter]
    /\ begun' = [begun EXCEPT ![t] = @ + 1]
    /\ fresh' = [fresh EXCEPT ![t] = @ /\ t \notin DOMAIN counters]
    /\ UNCHANGED <<counters, rowlock, loc, wr, result, start, hist, lastc, lastf, fmtVars, cliVars>>

\* SELECT ... WHERE type=:t FOR UPDATE, and the branch on `if not row`
TnSelect(p) ==
    /\ pc[p] = "tn_select"
    /\ ~SelectBlocked(p, doc[p])
    /\ IF doc[p] \in DOMAIN counters
       THEN /\ rowlock' = [rowlock EXCEPT ![doc[p]] = p]
            /\ loc' = [loc EXCEPT ![p] = RowLocals(counters[doc[p]])]
            /\ pc' = [pc EXCEPT ![p] = "tn_update"]
       ELSE /\ pc' = [pc EXCEPT ![p] = "tn_insert"]
            /\ UNCHANGED <<rowlock, loc>>
    /\ UNCHANGED <<counters, doc, cin, wr, result, ncalls, histVars, fmtVars, cliVars>>

\* INSERT INTO counters(type,next,prefix,padding) VALUES (:t,1,'',0):
\* a unique violation on the primary key when the key is committed by now
TnInsert(p) ==
    /\ pc[p] = "tn_insert"
    /\ IF doc[p] \in DOMAIN counters
       THEN Abort(p, "IntegrityError")
       ELSE /\ ~InsertBlocked(p, doc[p])
            /\ rowlock' = [rowlock EXCEPT ![doc[p]] = p]
            /\ wr' = [wr EXCEPT ![p] = OneRow(doc[p], InsertedRow)]
            /\ loc' = [loc EXCEPT ![p] = FirstLocals]
            /\ pc' = [pc EXCEPT ![p] = "tn_update"]
            /\ UNCHANGED <<counters, doc, cin, result, ncalls, histVars, fmtVars, cliVars>>

\* formatted = formatted_number(...); UPDATE counters SET next=:n WHERE type=:t
TnUpdate(p) ==
    /\ pc[p] = "tn_update"
    /\ IF FormatRaises(loc[p].next_val, loc[p].padding)
       THEN Abort(p, "ValueError")
       ELSE /\ loc' = [loc EXCEPT ![p].formatted =
                          formatted_number(loc[p].next_val, loc[p].prefix, loc[p].padding)]
            /\ wr' = [wr EXCEPT ![p] =
                          OneRow(doc[p], UpdatedRow(Visible(p, doc[p]),
                                                    UpdatedNext(loc[p].next_val)))]
            /\ pc' = [pc EXCEPT ![p] = "tn_commit"]
            /\ UNCHANGED <<counters, rowlock, doc, cin, result, ncalls, histVars, fmtVars, cliVars>>

\* db.commit(); return {"formatted": formatted}
TnCommit(p) ==
    /\ pc[p] = "tn_commit"
    /\ counters' = Committed(p)
    /\ rowlock' = Released(p)
    /\ wr' = [wr EXCEPT ![p] = NoRows]
    /\ result' = [status |-> 200, error |-> "", at |-> "", formatted |-> loc[p].formatted,
                  counter |-> <<>>]
    /\ doc' = [doc EXCEPT ![p] = "invoice"]
    /\ loc' = [loc EXCEPT ![p] = NoLocals]
    /\ pc' = [pc EXCEPT ![p] = "idle"]
    /\ start' = [start EXCEPT ![doc[p]] =
                    IF doc[p] \in DOMAIN counters THEN @ ELSE InsertedRow.next]
    /\ hist' = [hist EXCEPT ![doc[p]] =
                    Append(@, [n |-> loc[p].next_val, s |-> loc[p].formatted])]
    /\ lastc' = [type |-> doc[p], old |-> RowOf(counters, doc[p])]
    /\ lastf' = FailedAfterCommit(doc[p], <<loc[p].next_val>>)
    /\ UNCHANGED <<cin, ncalls, begun, fresh, fmtVars, cliVars>>

\* ---------------------------------------------- PUT /counters/{doc_type}
\* mutant: ON CONFLICT updates next alone, an existing prefix and padding stay
UpsertRowNextOnly(t, c) ==
    IF t \in DOMAIN counters
    THEN [next |-> c.next, prefix |-> counters[t].prefix, padding |-> counters[t].padding]
    ELSE [next |-> c.next, prefix |-> c.prefix, padding |-> c.padding]

\* the row INSERT ... ON CONFLICT (type) DO UPDATE SET next=EXCLUDED.next,
\* prefix=EXCLUDED.prefix, padding=EXCLUDED.padding leaves for key t
UpsertRow(t, c) == [next |-> c.next, prefix |-> c.prefix, padding |-> c.padding]

\* {"type": doc_type, **c.model_dump()}
CounterOut(t, c) ==
    [type |-> t, next |-> c.next, prefix |-> c.prefix, padding |-> c.padding]

CallSet(p, t, c) ==
    /\ pc[p] = "idle"
    /\ ncalls < MaxCalls
    /\ ncalls' = ncalls + 1
    /\ pc' = [pc EXCEPT ![p] = "sc_upsert"]
    /\ doc' = [doc EXCEPT ![p] = t]
    /\ cin' = [cin EXCEPT ![p] = c]
    /\ fresh' = [fresh EXCEPT ![t] = FALSE]
    /\ UNCHANGED <<counters, rowlock, loc, wr, result, begun, start, hist, lastc, lastf, fmtVars, cliVars>>

\* the upsert statement: it waits for the row's lock like any write of the key
ScUpsert(p) ==
    /\ pc[p] = "sc_upsert"
    /\ ~InsertBlocked(p, doc[p])
    /\ rowlock' = [rowlock EXCEPT ![doc[p]] = p]
    /\ wr' = [wr EXCEPT ![p] = OneRow(doc[p], UpsertRow(doc[p], cin[p]))]
    /\ pc' = [pc EXCEPT ![p] = "sc_commit"]
    /\ UNCHANGED <<counters, doc, cin, loc, result, ncalls, histVars, fmtVars, cliVars>>

\* db.commit(); return {"type": doc_type, **c.model_dump()}
ScCommit(p) ==
    /\ pc[p] = "sc_commit"
    /\ counters' = Committed(p)
    /\ rowlock' = Released(p)
    /\ wr' = [wr EXCEPT ![p] = NoRows]
    /\ result' = [status |-> 200, error |-> "", at |-> "", formatted |-> "",
                  counter |-> <<CounterOut(doc[p], cin[p])>>]
    /\ doc' = [doc EXCEPT ![p] = "invoice"]
    /\ cin' = [cin EXCEPT ![p] = DefaultCounter]
    /\ pc' = [pc EXCEPT ![p] = "idle"]
    /\ start' = [start EXCEPT ![doc[p]] = cin[p].next]
    /\ hist' = [hist EXCEPT ![doc[p]] = <<>>]
    /\ lastc' = [type |-> doc[p], old |-> RowOf(counters, doc[p])]
    /\ lastf' = FailedAfterCommit(doc[p], <<>>)
    /\ UNCHANGED <<loc, ncalls, begun, fresh, fmtVars, cliVars>>

\* ------------------------------------------------------------- failures
\* a store failure (connection loss, caller abort) at any statement of an open
\* request: the exception leaves the with block
StoreFail(p) ==
    /\ pc[p] # "idle"
    /\ Abort(p, "OperationalError")

Next ==
    \/ \E p \in Workers, t \in DocTypes : CallTake(p, t)
    \/ \E p \in Workers : TnSelect(p)
    \/ \E p \in Workers : TnInsert(p)
    \/ \E p \in Workers : TnUpdate(p)
    \/ \E p \in Workers : TnCommit(p)
    \/ \E p \in Workers, t \in DocTypes, c \in CounterIns : CallSet(p, t, c)
    \/ \E p \in Workers : ScUpsert(p)
    \/ \E p \in Workers : ScCommit(p)
    \/ \E p \in Workers : StoreFail(p)

Spec == Init /\ [][Next]_vars

\* the statements of worker p's open request, which its thread runs unless the
\* store makes it wait
HandlerStep(p) ==
    TnSelect(p) \/ TnInsert(p) \/ TnUpdate(p) \/ TnCommit(p) \/ ScUpsert(p) \/ ScCommit(p)

\* the requests that contend for one row: all on the same doc_type
NextOneType ==
    \/ \E p \in Workers : CallTake(p, "invoice")
    \/ \E p \in Workers : TnSelect(p)
    \/ \E p \in Workers : TnInsert(p)
    \/ \E p \in Workers : TnUpdate(p)
    \/ \E p \in Workers : TnCommit(p)
    \/ \E p \in Workers, c \in CounterIns : CallSet(p, "invoice", c)
    \/ \E p \in Workers : ScUpsert(p)
    \/ \E p \in Workers : ScCommit(p)
    \/ \E p \in Workers : StoreFail(p)

\* each request runs on a thread of its own, which keeps running
SpecFair ==
    Init /\ [][NextOneType]_vars /\ \A p \in Workers : WF_vars(HandlerStep(p))

\* ------------------------------------------- formatted_number on its own
FmtNexts == (-MaxFmtNext .. MaxFmtNext) \cup {99, 100, 101}
FmtPaddings == -2 .. MaxFmtPadding
FmtArgs == [next_val : FmtNexts, prefix : Prefixes, padding : FmtPaddings]

InitFmt ==
    /\ counters = NoRows
    /\ rowlock = [t \in DocTypes |-> 0]
    /\ pc = [p \in Workers |-> "idle"]
    /\ doc = [p \in Workers |-> "invoice"]
    /\ cin = [p \in Workers |-> DefaultCounter]
    /\ loc = [p \in Workers |-> NoLocals]
    /\ wr = [p \in Workers |-> NoRows]
    /\ result = NoResult
    /\ ncalls = 0
    /\ begun = [t \in DocTypes |-> 0]
    /\ fresh = [t \in DocTypes |-> TRUE]
    /\ start = [t \in DocTypes |-> 0]
    /\ hist = [t \in DocTypes |-> <<>>]
    /\ lastc = [type |-> "", old |-> <<>>]
    /\ lastf = NoFailed
    /\ fmtArg \in FmtArgs
    /\ fmtRes = NoFmtRes
    /\ NoClientRequests
    /\ clients = NoClients
    /\ nextid = 1
    /\ history = <<>>
    /\ hnextid = 1

\* one call formatted_number(next_val, prefix, padding): a string, or ValueError
FormatCall ==
    /\ ~fmtRes.done
    /\ fmtRes' =
          IF FormatRaises(fmtArg.next_val, fmtArg.padding)
          THEN [done |-> TRUE, raised |-> TRUE, str |-> ""]
          ELSE [done |-> TRUE, raised |-> FALSE,
                str |-> formatted_number(fmtArg.next_val, fmtArg.prefix, fmtArg.padding)]
    /\ UNCHANGED <<counters, rowlock, pc, doc, cin, loc, wr, result, ncalls,
                   histVars, fmtArg, cliVars>>

NextFmt == FormatCall

SpecFmt == InitFmt /\ [][NextFmt]_vars


\* --------------------------------------------------------- POST /clients
\* ClientIn bodies: one (name, email) pair with two addresses, a body whose
\* email is null, and a body whose email is the blank string
ClientIns ==
    { [name |-> "acme", address |-> Some("1 rue A"), email |-> Some("a@x"), phone |-> Some("01")],
      [name |-> "acme", address |-> Some("2 rue B"), email |-> Some("a@x"), phone |-> None],
      [name |-> "acme", address |-> Some("3 rue C"), email |-> None, phone |-> Some("03")],
      [name |-> "acme", address |-> Some("5 rue E"), email |-> Some(""), phone |-> Some("05")] }

HistoryIns == { [type |-> "invoice", number |-> "INV-09"] }

\* the workers that serve clients / history requests
NumClientWorkers == 2
ClientWorkers == 1 .. NumClientWorkers

ClientPcs == {"uc_select", "uc_update", "uc_insert", "uc_commit", "uc_return"}
HistoryPcs == {"ah_insert", "ah_commit"}

Min(S) == CHOOSE i \in S : \A j \in S : i <= j

\* a unique constraint that is not there
NoUniqueConstraint(c) == {}

\* SELECT id FROM clients WHERE name=:n AND email=:e, with e = c.email as sent:
\* a comparison with NULL is never true
Matching(c) ==
    {i \in DOMAIN clients :
        /\ clients[i].name = c.name
        /\ c.email # None
        /\ clients[i].email = c.email[1]}

\* the row the INSERT writes: optional fields with `or ""`
InsertedClient(c) ==
    [name |-> c.name, address |-> OrBlank(c.address), email |-> OrBlank(c.email),
     phone |-> OrBlank(c.phone)]

\* UPDATE clients SET address=:a, phone=:p WHERE id=:id
UpdatedClient(row, c) ==
    [row EXCEPT !.address = OrBlank(c.address), !.phone = OrBlank(c.phone)]

\* UniqueConstraint("name", "email"): committed rows with the key of the new row
DuplicateKey(c) ==
    {i \in DOMAIN clients :
        clients[i].name = InsertedClient(c).name /\ clients[i].email = InsertedClient(c).email}

\* another open transaction has written row i and not finished
ClientRowLocked(p, i) ==
    \E q \in Workers \ {p} : cwr[q] # NoWrite /\ cwr[q][1].id = i

\* another open transaction has inserted the same key and not finished: the
\* INSERT waits for it
KeyInFlight(p, c) ==
    \E q \in Workers \ {p} :
        /\ cwr[q] # NoWrite
        /\ cwr[q][1].op = "insert"
        /\ cwr[q][1].row.name = InsertedClient(c).name
        /\ cwr[q][1].row.email = InsertedClient(c).email

\* db.commit(): the transaction's write becomes the committed row
ClientsCommitted(p) ==
    IF cwr[p] = NoWrite THEN clients
    ELSE [i \in DOMAIN clients \cup {cwr[p][1].id} |->
            IF i = cwr[p][1].id THEN cwr[p][1].row ELSE clients[i]]

ClientOut(i) ==
    [id |-> i, name |-> clients[i].name, address |-> clients[i].address,
     email |-> clients[i].email, phone |-> clients[i].phone]

ClientFailure(st, kind, text) ==
    [status |-> st, error |-> kind, detail |-> text, client |-> <<>>, entry |-> <<>>]

\* the request is over: its locals are gone
ClientDone(p) ==
    /\ pc' = [pc EXCEPT ![p] = "idle"]
    /\ creq' = [creq EXCEPT ![p] = NoClientIn]
    /\ hreq' = [hreq EXCEPT ![p] = NoHistoryIn]
    /\ cid' = [cid EXCEPT ![p] = 0]
    /\ cwr' = [cwr EXCEPT ![p] = NoWrite]
    /\ prior' = [prior EXCEPT ![p] = {}]

counterVars == <<counters, rowlock, doc, cin, loc, wr, result, histVars, fmtVars>>

\* a POST /clients request arrives
CallUpsert(p, c) ==
    /\ pc[p] = "idle"
    /\ ncalls < MaxCalls
    /\ ncalls' = ncalls + 1
    /\ pc' = [pc EXCEPT ![p] = "uc_select"]
    /\ creq' = [creq EXCEPT ![p] = c]
    /\ prior' = [prior EXCEPT ![p] =
                    {a.id : a \in {b \in answered : b.name = c.name /\ b.email = c.email}}]
    /\ UNCHANGED <<counterVars, clients, nextid, history, hnextid, hreq, cid, cwr, cres, answered>>

\* row = SELECT id ... .fetchone()
UcSelect(p) ==
    /\ pc[p] = "uc_select"
    /\ IF Matching(creq[p]) # {}
       THEN /\ cid' = [cid EXCEPT ![p] = Min(Matching(creq[p]))]
            /\ pc' = [pc EXCEPT ![p] = "uc_update"]
       ELSE /\ cid' = [cid EXCEPT ![p] = 0]
            /\ pc' = [pc EXCEPT ![p] = "uc_insert"]
    /\ UNCHANGED <<counterVars, ncalls, clients, nextid, history, hnextid, creq, hreq, cwr,
                   cres, answered, prior>>

\* if row: UPDATE clients SET address, phone WHERE id = row.id
UcUpdate(p) ==
    /\ pc[p] = "uc_update"
    /\ ~ClientRowLocked(p, cid[p])
    /\ cwr' = [cwr EXCEPT ![p] =
                  <<[op |-> "update", id |-> cid[p],
                     row |-> UpdatedClient(clients[cid[p]], creq[p])]>>]
    /\ pc' = [pc EXCEPT ![p] = "uc_commit"]
    /\ UNCHANGED <<counterVars, ncalls, clients, nextid, history, hnextid, creq, hreq, cid,
                   cres, answered, prior>>

\* else: INSERT INTO clients ... RETURNING id; on a duplicate key
\* except IntegrityError: db.rollback(); raise HTTPException(400, ...)
UcInsert(p) ==
    /\ pc[p] = "uc_insert"
    /\ ~KeyInFlight(p, creq[p])
    /\ nextid' = nextid + 1
    /\ IF DuplicateKey(creq[p]) # {}
       THEN /\ cres' = ClientFailure(400, "IntegrityError", "Client unique constraint failed")
            /\ ClientDone(p)
       ELSE /\ cwr' = [cwr EXCEPT ![p] =
                          <<[op |-> "insert", id |-> nextid, row |-> InsertedClient(creq[p])]>>]
            /\ cid' = [cid EXCEPT ![p] = nextid]
            /\ pc' = [pc EXCEPT ![p] = "uc_commit"]
            /\ UNCHANGED <<creq, hreq, cres, prior>>
    /\ UNCHANGED <<counterVars, ncalls, clients, history, hnextid, answered>>

\* db.commit() of either branch
UcCommit(p) ==
    /\ pc[p] = "uc_commit"
    /\ clients' = ClientsCommitted(p)
    /\ cwr' = [cwr EXCEPT ![p] = NoWrite]
    /\ pc' = [pc EXCEPT ![p] = "uc_return"]
    /\ UNCHANGED <<counterVars, ncalls, nextid, history, hnextid, creq, hreq, cid, cres,
                   answered, prior>>

\* newrow = SELECT ... WHERE id=:id; return ClientOut(...)
UcReturn(p) ==
    /\ pc[p] = "uc_return"
    /\ cres' = [status |-> 200, error |-> "", detail |-> "",
                client |-> <<ClientOut(cid[p])>>, entry |-> <<>>]
    /\ answered' = answered \cup
                     {[name |-> creq[p].name, email |-> creq[p].email, id |-> cid[p]]}
    /\ ClientDone(p)
    /\ UNCHANGED <<counterVars, ncalls, clients, nextid, history, hnextid>>

\* --------------------------------------------------------- POST /history
\* the columns client, total_ttc, path and ts are stored as sent (ts as the
\* server's clock reads) and play no part in what follows: rows are [id, type, number]
CallHistory(p, h) ==
    /\ pc[p] = "idle"
    /\ ncalls < MaxCalls
    /\ ncalls' = ncalls + 1
    /\ pc' = [pc EXCEPT ![p] = "ah_insert"]
    /\ hreq' = [hreq EXCEPT ![p] = h]
    /\ UNCHANGED <<counterVars, clients, nextid, history, hnextid, creq, cid, cwr, cres,
                   answered, prior>>

\* INSERT INTO history ... RETURNING id, ts
AhInsert(p) ==
    /\ pc[p] = "ah_insert"
    /\ cid' = [cid EXCEPT ![p] = hnextid]
    /\ hnextid' = hnextid + 1
    /\ pc' = [pc EXCEPT ![p] = "ah_commit"]
    /\ UNCHANGED <<counterVars, ncalls, clients, nextid, history, creq, hreq, cwr, cres,
                   answered, prior>>

HistoryRow(p) == [id |-> cid[p], type |-> hreq[p].type, number |-> hreq[p].number]

\* db.commit(); return HistoryOut(...)
AhCommit(p) ==
    /\ pc[p] = "ah_commit"
    /\ history' = Append(history, HistoryRow(p))
    /\ cres' = [status |-> 200, error |-> "", detail |-> "", client |-> <<>>,
                entry |-> <<HistoryRow(p)>>]
    /\ ClientDone(p)
    /\ UNCHANGED <<counterVars, ncalls, clients, nextid, hnextid, answered>>

\* a statement of either handler fails in the store (connection lost, ...):
\* only IntegrityError has an except clause, the session is closed without a
\* commit and the exception leaves the handler
ClientStoreFail(p) ==
    /\ pc[p] \in ClientPcs \cup HistoryPcs
    /\ cres' = ClientFailure(500, "OperationalError", "")
    /\ ClientDone(p)
    /\ UNCHANGED <<counterVars, ncalls, clients, nextid, history, hnextid, answered>>

NextClients ==
    \/ \E p \in ClientWorkers, c \in ClientIns : CallUpsert(p, c)
    \/ \E p \in ClientWorkers : UcSelect(p)
    \/ \E p \in ClientWorkers : UcUpdate(p)
    \/ \E p \in ClientWorkers : UcInsert(p)
    \/ \E p \in ClientWorkers : UcCommit(p)
    \/ \E p \in ClientWorkers : UcReturn(p)
    \/ \E p \in ClientWorkers, h \in HistoryIns : CallHistory(p, h)
    \/ \E p \in ClientWorkers : AhInsert(p)
    \/ \E p \in ClientWorkers : AhCommit(p)
    \/ \E p \in ClientWorkers : ClientStoreFail(p)

SpecClients == Init /\ [][NextClients]_vars

\* ---------------------- the counters handlers beside stored clients and history
StoredClients ==
    [i \in {1} |-> [name |-> "acme", address |-> "1 rue A", email |-> "a@x", phone |-> "01"]]
StoredHistory == <<[id |-> 1, type |-> "invoice", number |-> "INV-09"]>>

InitFrame ==
    /\ counters = NoRows
    /\ rowlock = [t \in DocTypes |-> 0]
    /\ pc = [p \in Workers |-> "idle"]
    /\ doc = [p \in Workers |-> "invoice"]
    /\ cin = [p \in Workers |-> DefaultCounter]
    /\ loc = [p \in Workers |-> NoLocals]
    /\ wr = [p \in Workers |-> NoRows]
    /\ result = NoResult
    /\ ncalls = 0
    /\ begun = [t \in DocTypes |-> 0]
    /\ fresh = [t \in DocTypes |-> TRUE]
    /\ start = [t \in DocTypes |-> 0]
    /\ hist = [t \in DocTypes |-> <<>>]
    /\ lastc = [type |-> "", old |-> <<>>]
    /\ lastf = NoFailed
    /\ fmtArg = NoFmtArg
    /\ fmtRes = NoFmtRes
    /\ NoClientRequests
    /\ clients = StoredClients
    /\ nextid = 2
    /\ history = StoredHistory
    /\ hnextid = 2

SpecFrame == InitFrame /\ [][Next]_vars

\* ------------------------------------------------------------------ claims
\* s left-padded with '0' to width w
RECURSIVE LeftPad0(_, _)
LeftPad0(s, w) == IF Len(s) >= w THEN s ELSE LeftPad0("0" \o s, w)

\* zero_pad(n, p) as the specification words it: n in decimal, left-padded with
\* '0' to width p when p > 0 and n >= 0, unpadded otherwise
zero_pad(n, p) == IF p > 0 /\ n >= 0 THEN LeftPad0(Str(n), p) ELSE Str(n)

\* C9: for every next value n, prefix and padding p, formatted_number returns
\* prefix + zero_pad(n, p) and never raises.
C9_FormatIsPrefixZeroPad ==
    fmtRes.done =>
        /\ ~fmtRes.raised
        /\ fmtRes.str = fmtArg.prefix \o zero_pad(fmtArg.next_val, fmtArg.padding)

\* formatted_number agrees with prefix + zero_pad(n, p) whenever it returns
FormatAgreesWhenItReturns ==
    (fmtRes.done /\ ~fmtRes.raised) =>
        fmtRes.str = fmtArg.prefix \o zero_pad(fmtArg.next_val, fmtArg.padding)

\* the spec's three examples, and the one input class that raises
FormatExamples ==
    /\ formatted_number(7, "", 4) = "0007"
    /\ formatted_number(7, "", 0) = "7"
    /\ formatted_number(-1, "", 4) = "-1"
    /\ formatted_number(100, "INV-", 5) = "INV-00100"
    /\ FormatRaises(7, -1) /\ ~FormatRaises(-1, -1) /\ ~FormatRaises(7, 0)

\* ---- history read-outs used by the claims
TakePcs == {"tn_select", "tn_insert", "tn_update", "tn_commit"}

\* a take_next_number call on t is open
TakeInFlight(t) == \E p \in Workers : pc[p] \in TakePcs /\ doc[p] = t

IssuedInts(t) == {hist[t][i].n : i \in 1..Len(hist[t])}
IssuedStrs(t) == {hist[t][i].s : i \in 1..Len(hist[t])}

\* worker p's request ends in this step
Ends(p) == pc[p] # "idle" /\ pc'[p] = "idle"

\* C1: N concurrent take_next_number calls on a type with no row, all of them
\* successful, return N pairwise distinct formatted numbers, and the integers
\* used are exactly 1..N.
C1_FreshCallsIssueOneToN ==
    \A t \in DocTypes :
        (fresh[t] /\ begun[t] >= 1 /\ ~TakeInFlight(t)) =>
            /\ Len(hist[t]) = begun[t]
            /\ IssuedInts(t) = 1..begun[t]
            /\ Cardinality(IssuedStrs(t)) = begun[t]

\* as many concurrent calls as there are workers, all started before any row
\* existed, have all returned
C1_Witness ==
    \E t \in DocTypes :
        fresh[t] /\ begun[t] = NumWorkers /\ ~TakeInFlight(t) /\ Len(hist[t]) = NumWorkers

\* worker p has read the row of its doc_type under the row lock
HoldsRead(p) ==
    pc[p] \in {"tn_update", "tn_commit"} /\ doc[p] \in DOMAIN counters

\* C2: concurrent take_next_number calls on an existing row, with no configure
\* in between, never return the same number: one call at a time holds the row,
\* and each reads the value the previous one committed.
C2_NoDuplicateOnExistingRow ==
    \A t \in DOMAIN counters :
        /\ Cardinality(IssuedStrs(t)) = Len(hist[t])
        /\ Cardinality(IssuedInts(t)) = Len(hist[t])
        /\ \A p, q \in Workers :
              (HoldsRead(p) /\ HoldsRead(q) /\ doc[p] = t /\ doc[q] = t) => p = q
        /\ \A p \in Workers :
              (HoldsRead(p) /\ doc[p] = t) => loc[p].next_val = counters[t].next

\* two numbers were issued on a row while one call holds the row lock and
\* another waits for it
C2_Witness ==
    \E t \in DOMAIN counters : \E p, q \in Workers :
        /\ Len(hist[t]) >= 1
        /\ HoldsRead(p) /\ doc[p] = t /\ pc[p] = "tn_commit"
        /\ pc[q] = "tn_select" /\ doc[q] = t /\ SelectBlocked(q, t)

\* C3: two concurrent first allocations of one unseen doc_type do not race on
\* the creation of the row: neither fails with a duplicate-key error.
C3_FirstAllocationNeverDuplicateKey ==
    [][\A p \in Workers :
          (pc[p] = "tn_insert" /\ fresh[doc[p]] /\ Ends(p)) =>
              result'.error # "IntegrityError"]_vars

\* the values a take_next_number call reads from table tbl for key t
WouldRead(tbl, t) == IF t \in DOMAIN tbl THEN RowLocals(tbl[t]) ELSE FirstLocals

\* the values the open call of worker p returns a number from: its locals once
\* assigned, the first-allocation values while it is about to insert the row
NumberOf(p) ==
    IF pc[p] = "tn_insert" THEN FirstLocals ELSE [loc[p] EXCEPT !.formatted = ""]

\* the call of worker p has read the counter and is on its way to return a
\* number: it holds the row, or found none and none is committed
HasNumber(p) ==
    \/ pc[p] \in {"tn_update", "tn_commit"}
    \/ pc[p] = "tn_insert" /\ doc[p] \notin DOMAIN counters

\* C4: a take_next_number call that fails between its read and its commit
\* leaves the counters table as it was (no increment, no created row, no lock
\* kept), and the next take_next_number on the type gets the number the failed
\* call was about to return.
C4_FailedTakeLeavesCounter ==
    [][\A p \in Workers :
          (pc[p] \in TakePcs /\ Ends(p) /\ result'.status = 500) =>
              /\ counters' = counters
              /\ rowlock'[doc[p]] # p
              /\ HasNumber(p) => WouldRead(counters', doc[p]) = NumberOf(p)]_vars

\* a call that had inserted the row of an unseen type and incremented it failed
\* at its commit, and the type still has no row
C4_Witness ==
    /\ result.status = 500 /\ result.at = "tn_commit"
    /\ \E t \in DocTypes : begun[t] = 1 /\ ncalls = 1 /\ t \notin DOMAIN counters

\* C5: each successful take_next_number increments next by exactly 1: from a
\* counter starting at s, k successful allocations issue s, s+1, ..., s+k-1
\* and leave next = s + k.
C5_IssuedNumbersAreConsecutive ==
    \A t \in DOMAIN counters :
        /\ counters[t].next = start[t] + Len(hist[t])
        /\ \A i \in 1..Len(hist[t]) : hist[t][i].n = start[t] + i - 1

\* a configured counter has issued two numbers across a change of digit count
C5_Witness ==
    \E t \in DOMAIN counters :
        /\ start[t] = 9 /\ Len(hist[t]) = 2
        /\ hist[t][1].s = "INV-09" /\ hist[t][2].s = "INV-10"
        /\ counters[t].next = 11

\* the step is the commit of a set_counter request on key t
SetCommits(t) ==
    \E p \in Workers :
        pc[p] = "sc_commit" /\ doc[p] = t /\ Ends(p) /\ result'.status = 200

\* C6 as claimed: the stored next of a counter never gets smaller, whichever
\* committed operation (take_next_number or set_counter) writes it.
C6_NextNeverDecreases ==
    [][\A t \in DOMAIN counters :
          t \in DOMAIN counters' /\ counters'[t].next >= counters[t].next]_vars

\* C6 as amended: a counter row is never removed, and its next never gets
\* smaller except by the commit of a set_counter, which stores the next it is
\* given; a take_next_number commit raises it by exactly 1.
C6_NextDecreasesOnlyBySetCounter ==
    [][\A t \in DOMAIN counters :
          /\ t \in DOMAIN counters'
          /\ \/ SetCommits(t)
             \/ counters'[t].next = counters[t].next
             \/ /\ counters'[t].next = counters[t].next + 1
                /\ result'.status = 200 /\ result'.counter = <<>>]_vars

\* the last commit was a take_next_number on an existing row, whose next it raised
C6_Witness ==
    /\ lastc.old # <<>>
    /\ result.status = 200 /\ result.counter = <<>>
    /\ lastc.type \in DOMAIN counters
    /\ counters[lastc.type].next = lastc.old[1].next + 1

\* C7: set_counter(t, n, p, w) directly followed by take_next_number(t) returns
\* p followed by n zero-padded to width w, and leaves next = n + 1, for every
\* n, p and w.
C7_TakeAfterSetCounter ==
    [][\A q \in Workers :
          (/\ HoldsRead(q) /\ hist[doc[q]] = <<>>
           /\ Ends(q) /\ result'.error # "OperationalError") =>
              /\ result'.status = 200
              /\ result'.formatted =
                    counters[doc[q]].prefix
                        \o zero_pad(counters[doc[q]].next, counters[doc[q]].padding)
              /\ counters'[doc[q]] =
                    [counters[doc[q]] EXCEPT !.next = counters[doc[q]].next + 1]]_vars

\* C8: take_next_number on a type with no row creates the row (1, "", 0) in its
\* own transaction, returns "1", and commits the row (2, "", 0).
C8_FirstAllocation ==
    [][\A p \in Workers :
          /\ (pc[p] = "tn_insert" /\ pc'[p] = "tn_update") =>
                /\ doc[p] \notin DOMAIN counters
                /\ wr'[p] = OneRow(doc[p], [next |-> 1, prefix |-> "", padding |-> 0])
                /\ counters' = counters
          /\ (pc[p] = "tn_commit" /\ doc[p] \notin DOMAIN counters /\ Ends(p)
                /\ result'.status = 200) =>
                /\ result'.formatted = "1"
                /\ DOMAIN counters' = DOMAIN counters \cup {doc[p]}
                /\ counters'[doc[p]] = [next |-> 2, prefix |-> "", padding |-> 0]]_vars

\* the last commit created a row and its call returned "1"
C8_Witness ==
    /\ lastc.old = <<>> /\ lastc.type \in DOMAIN counters
    /\ result.status = 200 /\ result.formatted = "1"
    /\ counters[lastc.type] = [next |-> 2, prefix |-> "", padding |-> 0]
    /\ hist[lastc.type] = <<[n |-> 1, s |-> "1"]>>

\* C10: set_counter is an idempotent full overwrite: its commit leaves the row
\* of doc_type with exactly the given next, prefix and padding, whether the row
\* existed or not and whatever it held; the same call again changes nothing.
C10_SetCounterOverwrites ==
    [][\A p \in Workers :
          (pc[p] = "sc_commit" /\ Ends(p) /\ result'.status = 200) =>
              /\ doc[p] \in DOMAIN counters'
              /\ counters'[doc[p]] = cin[p]
              /\ \A t \in DOMAIN counters' \ {doc[p]} :
                    t \in DOMAIN counters /\ counters'[t] = counters[t]
              /\ (doc[p] \in DOMAIN counters /\ counters[doc[p]] = cin[p]) =>
                    counters' = counters
              /\ result'.counter = <<CounterOut(doc[p], cin[p])>>]_vars

\* the last commit was a set_counter that replaced a row differing from the
\* given one in next, prefix and padding
C10_Witness ==
    /\ lastc.old # <<>> /\ lastc.type \in DOMAIN counters
    /\ result.status = 200 /\ result.counter # <<>>
    /\ result.counter[1].type = lastc.type
    /\ counters[lastc.type].next = result.counter[1].next
    /\ counters[lastc.type].next # lastc.old[1].next
    /\ counters[lastc.type].prefix # lastc.old[1].prefix
    /\ counters[lastc.type].padding # lastc.old[1].padding

\* a statement of worker p's open take_next_number
TakeStep(p) == TnSelect(p) \/ TnInsert(p) \/ TnUpdate(p) \/ TnCommit(p)

\* C11: allocations on different doc_types do not block each other: a
\* take_next_number whose doc_type no other open request works on can run its
\* next statement, whatever locks open requests on other types hold.
C11_OtherTypesDoNotBlock ==
    \A q \in Workers :
        (/\ pc[q] \in TakePcs
         /\ \A p \in Workers \ {q} : pc[p] # "idle" => doc[p] # doc[q]) =>
            ENABLED TakeStep(q)

\* two allocations on different types are open, each holding its own row
C11_Witness ==
    \E p, q \in Workers :
        /\ doc[p] # doc[q]
        /\ pc[p] = "tn_commit" /\ rowlock[doc[p]] = p
        /\ pc[q] = "tn_commit" /\ rowlock[doc[q]] = q

\* the call of worker q waits for the row of its doc_type
Waiting(q) ==
    \/ pc[q] = "tn_select" /\ SelectBlocked(q, doc[q])
    \/ pc[q] = "tn_insert" /\ doc[q] \notin DOMAIN counters /\ InsertBlocked(q, doc[q])

CommitsAfterFailure(p) ==
    /\ pc[p] = "tn_commit" /\ Ends(p) /\ result'.status = 200
    /\ lastf.type = doc[p] /\ lastf.num # <<>> /\ ~lastf.retried

\* C15 as claimed: after a take_next_number failed past its read, the call that
\* succeeds next on the type gets a fresh number, never the one the failed
\* attempt had computed.
C15_RetryNeverReusesNumber ==
    [][\A p \in Workers :
          CommitsAfterFailure(p) => <<loc[p].next_val>> # lastf.num]_vars

\* C15 as amended: the failed attempt's number was never issued, and the call
\* that succeeds next on the type returns exactly that number.
C15_RetryReturnsTheUnissuedNumber ==
    [][\A p \in Workers, t \in DocTypes :
          (CommitsAfterFailure(p) /\ doc[p] = t) =>
              /\ <<loc[p].next_val>> = lastf.num
              /\ loc[p].next_val \notin IssuedInts(t)
              /\ loc[p].next_val \in IssuedInts(t)']_vars

\* a call has returned the number a failed call before it had computed
C15_Witness == lastf.retried /\ lastf.num # <<>> /\ result.status = 200

\* exceptions the store layer raises
StoreErrors == {"IntegrityError", "OperationalError"}

\* C16: every store-layer error raised while serving a request is caught at the
\* request boundary and turned into a structured failure response: none
\* escapes the handler untranslated (as the server's HTTP 500).
C16_StoreErrorsAreTranslated ==
    result.error \in StoreErrors => result.status # 500

\* the rows a serial run leaves for doc_type t: the values of the last
\* set_counter (or of the creation) with next advanced once per allocation
\* committed after it
SerialOutcomes(t) ==
    { [c EXCEPT !.next = c.next + Len(hist[t])] :
        c \in {d \in CounterIns \cup {[next |-> 1, prefix |-> "", padding |-> 0]} :
                  d.next = start[t]} }

\* C17: a set_counter and a take_next_number open at once on one existing
\* doc_type are serialized by the row lock: the committed row is always the
\* outcome of a serial order, never a next computed from a value read before a
\* committed set_counter.
C17_SetAndTakeSerialized ==
    /\ \A t \in DOMAIN counters : counters[t] \in SerialOutcomes(t)
    /\ \A p, q \in Workers :
          (/\ p # q /\ doc[p] = doc[q]
           /\ pc[p] \in {"tn_update", "tn_commit"}
           /\ pc[q] \in {"sc_upsert", "sc_commit"}) => pc[q] = "sc_upsert"

\* a take_next_number holds an existing row while a set_counter on the same
\* doc_type waits to write it
C17_Witness ==
    \E p, q \in Workers :
        /\ doc[p] = doc[q] /\ doc[p] \in DOMAIN counters
        /\ pc[p] = "tn_commit" /\ rowlock[doc[p]] = p
        /\ pc[q] = "sc_upsert" /\ InsertBlocked(q, doc[q])

\* C18: a step of take_next_number(doc_type) leaves the clients and history
\* tables as they are, adds no row but the one of doc_type, leaves every other
\* counter row as it is and leaves prefix and padding of every row as they
\* are; and whenever prefix or padding of an existing row changes, the step is
\* the commit of a set_counter on that row.
C18_TakeChangesOnlyNext ==
    [][/\ \A p \in Workers :
             (pc[p] \in TakePcs /\ pc'[p] # pc[p]) =>
                 /\ clients' = clients
                 /\ history' = history
                 /\ DOMAIN counters \subseteq DOMAIN counters'
                 /\ DOMAIN counters' \subseteq DOMAIN counters \cup {doc[p]}
                 /\ \A t \in DOMAIN counters :
                       /\ counters'[t].prefix = counters[t].prefix
                       /\ counters'[t].padding = counters[t].padding
                       /\ t # doc[p] => counters'[t] = counters[t]
       /\ \A t \in DOMAIN counters :
             (\/ counters'[t].prefix # counters[t].prefix
              \/ counters'[t].padding # counters[t].padding) => SetCommits(t)]_vars

\* a take_next_number has committed on a row that set_counter gave a prefix,
\* beside a row of the other type and stored clients and history
C18_Witness ==
    /\ result.status = 200 /\ result.formatted # ""
    /\ lastc.old # <<>> /\ lastc.type \in DOMAIN counters
    /\ lastc.old[1].prefix = "INV-"
    /\ counters[lastc.type] = [lastc.old[1] EXCEPT !.next = lastc.old[1].next + 1]
    /\ \E u \in DOMAIN counters : u # lastc.type
    /\ clients = StoredClients
    /\ history = StoredHistory

\* ---- clients

\* what a call that follows a finished call with the same name and email
\* (prior[p] holds the id that call returned) has to do at each of its steps
UpdatesInPlace(p) ==
    /\ pc[p] = "uc_select" => pc'[p] # "uc_insert"
    /\ (pc[p] = "uc_commit" /\ pc'[p] = "uc_return") =>
          /\ DOMAIN clients' = DOMAIN clients
          /\ cid[p] \in prior[p]
          /\ clients'[cid[p]].address = OrBlank(creq[p].address)
          /\ clients'[cid[p]].phone = OrBlank(creq[p].phone)
          /\ clients'[cid[p]].name = clients[cid[p]].name
          /\ clients'[cid[p]].email = clients[cid[p]].email
    /\ Ends(p) => cres'.status # 400
    /\ (Ends(p) /\ cres'.status = 200) => cres'.client[1].id \in prior[p]

\* C13: an upsert_client call that follows a finished call with the same
\* (name, email) never inserts: its commit leaves the number of rows as it is,
\* writes the request's address and phone to the row the first call returned,
\* keeps that row's name and email, and the call returns that row's id.
C13_SecondCallUpdatesInPlace ==
    [][\A p \in Workers : prior[p] # {} => UpdatesInPlace(p)]_vars

\* the same, for requests that carry an email string
C13_GivenEmailUpdatesInPlace ==
    [][\A p \in Workers : (prior[p] # {} /\ creq[p].email # None) => UpdatesInPlace(p)]_vars

\* a second call with the same name and email string has updated the row
C13_GivenEmailWitness ==
    /\ cres.status = 200 /\ cres.client # <<>>
    /\ DOMAIN clients = {1}
    /\ cres.client[1] = [id |-> 1, name |-> "acme", address |-> "2 rue B",
                         email |-> "a@x", phone |-> ""]
    /\ \E a \in answered : a.id = 1 /\ a.email = Some("a@x")
    /\ nextid = 2

UniqueRows ==
    \A i, j \in DOMAIN clients :
        (clients[i].name = clients[j].name /\ clients[i].email = clients[j].email) => i = j

HitsConstraint(p) ==
    /\ pc[p] = "uc_insert"
    /\ pc'[p] # pc[p]
    /\ cres'.error # "OperationalError"
    /\ \E i \in DOMAIN clients :
          clients[i].name = creq[p].name /\ clients[i].email = OrBlank(creq[p].email)

\* C14: in every interleaving of upsert_client calls the committed clients
\* table holds at most one row per (name, email); and an INSERT that meets a
\* committed row with its key writes nothing, is answered 400 and ends the
\* request there (no second attempt).
C14_UniquePerNameEmail ==
    /\ UniqueRows
    /\ [][/\ UniqueRows'
          /\ \A p \in Workers :
                HitsConstraint(p) =>
                    /\ clients' = clients
                    /\ cwr'[p] = NoWrite
                    /\ cres'.status = 400
                    /\ pc'[p] = "idle"
                    /\ ncalls' = ncalls]_vars

\* two calls with the same name and email string raced: one row, the loser got 400
C14_Witness ==
    /\ cres.status = 400
    /\ DOMAIN clients # {}
    /\ \A i \in DOMAIN clients : clients[i].email = "a@x"
    /\ \A p \in Workers : pc[p] = "idle"

\* C19: a request whose email is null finds the stored row with the blank
\* email, and a call with no email that follows a finished call with the same
\* name and no email is not answered 400.
C19_NullEmailMatchesBlank ==
    [][\A p \in Workers :
          creq[p].email = None =>
              /\ (/\ pc[p] = "uc_select"
                  /\ pc'[p] \in {"uc_update", "uc_insert"}
                  /\ \E i \in DOMAIN clients :
                        clients[i].name = creq[p].name /\ clients[i].email = "") =>
                     /\ pc'[p] = "uc_update"
                     /\ clients[cid'[p]].email = ""
              /\ (prior[p] # {} /\ Ends(p)) => cres'.status # 400]_vars

====
